---- MODULE Spec2Model ----
(***************************************************************************)
(* Model of the WebchessV1.1 game-session coordinator (src/app.py).        *)
(*                                                                         *)
(* The coordinator's state is the process-wide `board` and `player_name`   *)
(* (app.py:12-13) and the result log file at RESULTS_PATH (app.py:18-21).  *)
(* In Spec each HTTP handler is one action: a handler runs to completion.  *)
(* In SpecConc player_move is split at its accesses to the shared board    *)
(* and two worker threads interleave.                                      *)
(*                                                                         *)
(* The rules engine (python-chess) is an external library.  It is modelled *)
(* by its API as app.py uses it (legal_moves, push, is_game_over, result,  *)
(* fen, turn, Move.from_uci, Move.uci, parse_square) on a reduced board:   *)
(* one rank of seven squares a1..g1 with kings, rooks and knights.  The    *)
(* reduced game keeps what the handlers depend on: check, checkmate for    *)
(* either side, stalemate, and the automatic draws (insufficient material, *)
(* move-count rule) in which is_game_over() is true while legal_moves is   *)
(* still non-empty.                                                        *)
(***************************************************************************)
EXTENDS Integers, Sequences, FiniteSets, TLC

(***************************************************************************)
(* Bounds of the model.                                                    *)
(***************************************************************************)
\* Requests explored per behaviour.
MaxRequests == 3
\* Requests explored per behaviour of the threaded server.
MaxConcRequests == 2
\* Halfmove-clock value at which the move-count draw applies
\* (python-chess: 150; scaled to the reduced board).
SeventyFiveLimit == 3

(***************************************************************************)
(* Values.                                                                 *)
(***************************************************************************)
\* Python's None (an absent JSON field, the unset player_name).
None == "None"
WHITE == TRUE
BLACK == FALSE

\* chess.SQUARE_NAMES of the reduced board; a text is a sequence of characters.
SQUARE_NAMES == << <<"a","1">>, <<"b","1">>, <<"c","1">>, <<"d","1">>, <<"e","1">>, <<"f","1">>,
                   <<"g","1">> >>
Squares == 1..Len(SQUARE_NAMES)
\* chess.PIECE_SYMBOLS without the leading None: index = piece type.
PIECE_SYMBOLS == <<"p","n","b","r","q","k">>

\* Index of x in the sequence s, 0 when absent (list.index raising ValueError).
IndexOf(s, x) == IF \E i \in 1..Len(s) : s[i] = x
                 THEN CHOOSE i \in 1..Len(s) : s[i] = x
                 ELSE 0

(***************************************************************************)
(* chess.Move                                                              *)
(***************************************************************************)
Move(f, t, p) == [from_square |-> f, to_square |-> t, promotion |-> p]
\* Move.null(), the parse of "0000".
NullMove == Move(0, 0, 0)

\* chess.Move.from_uci: [ok |-> FALSE] models the raised InvalidMoveError.
from_uci(uci) ==
  IF uci = <<"0","0","0","0">> THEN [ok |-> TRUE, move |-> NullMove]
  ELSE IF Len(uci) = 4 \/ Len(uci) = 5 THEN
    LET f == IndexOf(SQUARE_NAMES, SubSeq(uci, 1, 2))
        t == IndexOf(SQUARE_NAMES, SubSeq(uci, 3, 4))
        p == IF Len(uci) = 5 THEN IndexOf(PIECE_SYMBOLS, uci[5]) ELSE 0
    IN IF f = 0 \/ t = 0 \/ (Len(uci) = 5 /\ p = 0) THEN [ok |-> FALSE, move |-> NullMove]
       ELSE IF f = t THEN [ok |-> FALSE, move |-> NullMove]
       ELSE [ok |-> TRUE, move |-> Move(f, t, p)]
  ELSE [ok |-> FALSE, move |-> NullMove]

\* chess.Move.uci
uci_of(m) ==
  IF m = NullMove THEN <<"0","0","0","0">>
  ELSE SQUARE_NAMES[m.from_square] \o SQUARE_NAMES[m.to_square]
       \o (IF m.promotion = 0 THEN <<>> ELSE <<PIECE_SYMBOLS[m.promotion]>>)

\* chess.parse_square: 0 models the raised ValueError.
parse_square(name) == IndexOf(SQUARE_NAMES, name)

(***************************************************************************)
(* chess.Board                                                             *)
(***************************************************************************)
\* Piece placement of the starting position: upper case White, "." empty.
STARTING_CELLS == <<"K", ".", ".", "R", "n", "n", "k">>

\* chess.Board()
NewBoard == [cells |-> STARTING_CELLS, turn |-> WHITE, halfmove_clock |-> 0,
             fullmove_number |-> 1, move_stack |-> <<>>]

WhitePieces == {"K", "R", "N"}
BlackPieces == {"k", "r", "n"}
PiecesOf(color) == IF color = WHITE THEN WhitePieces ELSE BlackPieces
KingOf(color) == IF color = WHITE THEN "K" ELSE "k"
IsKing(c) == c \in {"K", "k"}
IsRook(c) == c \in {"R", "r"}
IsKnight(c) == c \in {"N", "n"}
Dist(i, j) == IF i >= j THEN i - j ELSE j - i

\* Board.attacks: does the piece on square i attack square j.
attacks(cells, i, j) ==
  /\ i # j
  /\ \/ IsKing(cells[i]) /\ Dist(i, j) = 1
     \/ IsKnight(cells[i]) /\ Dist(i, j) = 2
     \/ IsRook(cells[i]) /\ \A k \in Squares :
            ((k > i /\ k < j) \/ (k > j /\ k < i)) => cells[k] = "."

\* Board.is_attacked_by(color, square)
is_attacked_by(cells, color, sq) ==
  \E i \in Squares : cells[i] \in PiecesOf(color) /\ attacks(cells, i, sq)

\* The king of `color` is attacked (Board.is_check for the side to move).
in_check(cells, color) ==
  \E k \in Squares : cells[k] = KingOf(color) /\ is_attacked_by(cells, ~color, k)

\* Piece placement after moving the piece on m.from_square to m.to_square.
move_cells(cells, m) ==
  [i \in Squares |-> IF i = m.to_square THEN cells[m.from_square]
                     ELSE IF i = m.from_square THEN "."
                     ELSE cells[i]]

\* Board.is_pseudo_legal: the null move, a promotion by a non-pawn, a move
\* from a square not holding an own piece or onto an own piece are not.
is_pseudo_legal(b, m) ==
  /\ m.from_square \in Squares /\ m.to_square \in Squares
  /\ m.promotion = 0
  /\ b.cells[m.from_square] \in PiecesOf(b.turn)
  /\ b.cells[m.to_square] \notin PiecesOf(b.turn)
  /\ attacks(b.cells, m.from_square, m.to_square)

\* Board.is_into_check
is_into_check(b, m) == in_check(move_cells(b.cells, m), b.turn)

\* Board.is_legal
is_legal(b, m) == is_pseudo_legal(b, m) /\ ~is_into_check(b, m)

AllMoves == {Move(f, t, 0) : f \in Squares, t \in Squares}

\* Board.legal_moves (as a set; `m in board.legal_moves` is is_legal).
legal_moves(b) == {m \in AllMoves : is_legal(b, m)}

\* Board.is_zeroing: the move touches a piece of the side not to move
\* (a capture; the reduced game has no pawns).
is_zeroing(b, m) ==
  b.cells[m.from_square] \in PiecesOf(~b.turn) \/ b.cells[m.to_square] \in PiecesOf(~b.turn)

\* Board.push
push(b, m) ==
  [cells |-> move_cells(b.cells, m),
   turn |-> ~b.turn,
   halfmove_clock |-> IF is_zeroing(b, m) THEN 0 ELSE b.halfmove_clock + 1,
   fullmove_number |-> IF b.turn = BLACK THEN b.fullmove_number + 1 ELSE b.fullmove_number,
   move_stack |-> Append(b.move_stack, m)]

\* Board.push asserts that the origin square holds a piece; it does not
\* otherwise test the move against the position.
push_raises(b, m) == b.cells[m.from_square] = "."

\* The board a raising push leaves: the move is on the stack and the
\* counters are advanced, the pieces and the turn are as before.
push_partial(b, m) ==
  [b EXCEPT !.halfmove_clock = IF is_zeroing(b, m) THEN 0 ELSE @ + 1,
            !.fullmove_number = IF b.turn = BLACK THEN @ + 1 ELSE @,
            !.move_stack = Append(@, m)]

\* any(board.generate_legal_moves())
has_legal_move(b) == \E m \in AllMoves : is_legal(b, m)

is_check(b) == in_check(b.cells, b.turn)
is_checkmate(b) == ~has_legal_move(b) /\ is_check(b)
is_stalemate(b) == ~has_legal_move(b) /\ ~is_check(b)

\* Board.has_insufficient_material(color)
has_insufficient_material(b, color) ==
  LET mine == {i \in Squares : b.cells[i] \in PiecesOf(color)}
      theirs == {i \in Squares : b.cells[i] \in PiecesOf(~color)}
  IN IF \E i \in mine : IsRook(b.cells[i]) THEN FALSE
     ELSE IF \E i \in mine : IsKnight(b.cells[i])
          THEN Cardinality(mine) <= 2 /\ \A i \in theirs : IsKing(b.cells[i])
          ELSE TRUE

is_insufficient_material(b) ==
  has_insufficient_material(b, WHITE) /\ has_insufficient_material(b, BLACK)

\* Board.is_seventyfive_moves
is_seventyfive_moves(b) == b.halfmove_clock >= SeventyFiveLimit /\ has_legal_move(b)

\* Board.is_game_over (claim_draw = False)
is_game_over(b) ==
  is_checkmate(b) \/ is_insufficient_material(b) \/ is_stalemate(b) \/ is_seventyfive_moves(b)

\* Board.result
result(b) ==
  IF is_checkmate(b) THEN (IF b.turn = WHITE THEN "0-1" ELSE "1-0")
  ELSE IF is_game_over(b) THEN "1/2-1/2"
  ELSE "*"

\* Board.fen: placement, side to move, halfmove clock, fullmove number
\* (the reduced game has no castling rights and no en-passant square).
fen(b) == <<b.cells, IF b.turn = WHITE THEN "w" ELSE "b", b.halfmove_clock, b.fullmove_number>>


(***************************************************************************)
(* Inputs of the requests.                                                 *)
(***************************************************************************)
\* An absent "move" field: data.get("move") is None.
NoText == <<None>>
\* Move texts a caller may send: every pair of squares (legal or not,
\* including origin = destination), the null move, a promotion, and texts
\* that do not parse (empty, too short, unknown square, unknown promotion).
MoveTexts ==
  {SQUARE_NAMES[f] \o SQUARE_NAMES[t] : f \in Squares, t \in Squares}
  \cup { NoText, <<>>, <<"0","0","0","0">>, <<"a","1">>,
         <<"a","1","b","1","q">>, <<"a","1","b","1","x">>, <<"a","1","z","9">> }
\* Square texts for /valid_moves/<square>.
SquareTexts == {SQUARE_NAMES[i] : i \in Squares} \cup { <<"z","9">>, <<"a">> }
\* "player" of /start and of /player_move; None when the field is absent.
StartNames == {None, "", "Ann"}
MoveNames == {None, "Bob"}
\* "difficulty" of /player_move; None when the field is absent.
Difficulties == {None, "hard"}
\* What the primary engine does in one get_ai_move call: "primary" (Windows,
\* engine file present, engine.play returns), "missing" (not Windows or no
\* engine file), "raises" (popen_uci or play raises).
EngineOutcomes == {"primary", "missing", "raises"}

\* dict.get(key, default)
Get(v, default) == IF v = None THEN default ELSE v

(***************************************************************************)
(* State.                                                                  *)
(***************************************************************************)
VARIABLES
  board,        \* app.py:12  the global chess.Board
  player_name,  \* app.py:13  the global player_name
  log,          \* the records appended to RESULTS_PATH, oldest first
  req,          \* the last request received
  resp,         \* the JSON response to it
  obs,          \* what the last request did: moves pushed, engine strategy, log writes
  pre,          \* the operation before the last one and whether the game was over before it
  game_records, \* records appended since the last /start or /end
  played,       \* the moves accepted and replied since the last /start or /end
  nreq,         \* requests served
  threads,      \* per worker thread: position in player_move and its locals
  serialized    \* every request runs to completion before the next starts

vars == <<board, player_name, log, req, resp, obs, pre, game_records, played, nreq,
          threads, serialized>>

\* Python None in place of a chess.Move (get_ai_move found no legal move).
NoneMove == Move(0, 0, 1)

NoResult == [player |-> None, difficulty |-> None, status |-> None, res |-> None, fen |-> <<>>]

Request(op, move, square, player) ==
  [op |-> op, move |-> move, square |-> square, player |-> player]

Response(status, message, f, ai, res, player, moves, turn, over) ==
  [status |-> status, message |-> message, fen |-> f, ai |-> ai, result |-> res,
   player |-> player, moves |-> moves, turn |-> turn, game_over |-> over]

NoObs == [applied |-> <<>>, strategy |-> "none", logged |-> 0, log_error |-> FALSE]

\* The worker threads of the server.
Threads == {1, 2}

\* A thread between requests: no locals.
Idle == [pc |-> "idle", move |-> NullMove, checked |-> NewBoard, ai_move |-> NullMove,
         chosen_on |-> NewBoard, status |-> None, stale |-> FALSE]

Init ==
  /\ threads = [p \in Threads |-> Idle]
  /\ serialized = TRUE
  /\ board = NewBoard
  /\ player_name = None
  /\ log = <<>>
  /\ req = Request("none", NoText, <<>>, None)
  /\ resp = Response(None, None, <<>>, NoText, NoResult, None, {}, None, FALSE)
  /\ obs = NoObs
  /\ pre = [op |-> "none", game_over |-> FALSE]
  /\ game_records = 0
  /\ played = <<>>
  /\ nreq = 0

\* Bookkeeping common to every request.
Served == /\ nreq < MaxRequests
          /\ nreq' = nreq + 1
          /\ pre' = [op |-> req.op, game_over |-> is_game_over(board)]
          /\ UNCHANGED <<threads, serialized>>

(***************************************************************************)
(* GET /get_state   (app.py:35-42)                                         *)
(***************************************************************************)
GetState ==
  /\ Served
  /\ req' = Request("get_state", NoText, <<>>, None)
  /\ resp' = Response(None, None, fen(board), NoText, NoResult, player_name, {},
                      IF board.turn = WHITE THEN "white" ELSE "black", is_game_over(board))
  /\ obs' = NoObs
  /\ UNCHANGED <<board, player_name, log, game_records, played>>

(***************************************************************************)
(* POST /start   (app.py:48-60)                                            *)
(***************************************************************************)
\* player_name after /start with the given "player" field.
StartName(name) == Get(name, "Guest")

StartSession ==
  /\ Served
  /\ \E name \in StartNames :
    /\ board' = NewBoard
    /\ player_name' = StartName(name)
    /\ req' = Request("start", NoText, <<>>, name)
    /\ resp' = Response("started", None, fen(board'), NoText, NoResult, player_name', {}, None, FALSE)
    /\ obs' = NoObs
    /\ game_records' = 0
    /\ played' = <<>>
    /\ UNCHANGED log

(***************************************************************************)
(* POST /end   (app.py:66-71)                                              *)
(***************************************************************************)
\* Faulty variant of ResetSession: `global board` is missing, so the new board is a
\* local and the shared one stays.
ResetSession_LocalBoard ==
  /\ Served
  /\ req' = Request("end", NoText, <<>>, None)
  /\ resp' = Response("reset", None, fen(NewBoard), NoText, NoResult, None, {}, None, FALSE)
  /\ obs' = NoObs
  /\ game_records' = 0
  /\ played' = <<>>
  /\ UNCHANGED <<board, player_name, log>>

ResetSession ==
  /\ Served
  /\ board' = NewBoard
  /\ req' = Request("end", NoText, <<>>, None)
  /\ resp' = Response("reset", None, fen(board'), NoText, NoResult, None, {}, None, FALSE)
  /\ obs' = NoObs
  /\ game_records' = 0
  /\ played' = <<>>
  /\ UNCHANGED <<player_name, log>>

(***************************************************************************)
(* GET /valid_moves/<square>   (app.py:77-85)                              *)
(***************************************************************************)
\* Faulty variant of valid_moves: the origin filter is missing.
valid_moves_AnyOrigin(b, square) ==
  LET sq == parse_square(square)
  IN IF sq = 0 THEN {}
     ELSE {uci_of(m) : m \in legal_moves(b)}

\* The "moves" of the response; the empty set when parse_square raises.
valid_moves(b, square) ==
  LET sq == parse_square(square)
  IN IF sq = 0 THEN {}
     ELSE {uci_of(m) : m \in {x \in legal_moves(b) : x.from_square = sq}}

LegalMovesFrom ==
  /\ Served
  /\ \E square \in SquareTexts :
    /\ req' = Request("valid_moves", NoText, square, None)
    /\ resp' = Response(None, None, <<>>, NoText, NoResult, None, valid_moves(board, square), None, FALSE)
    /\ obs' = NoObs
    /\ UNCHANGED <<board, player_name, log, game_records, played>>


(***************************************************************************)
(* get_ai_move   (app.py:160-182)                                          *)
(***************************************************************************)
\* Moves engine.play can return: python-chess parses the engine's bestmove
\* against the board and raises on an illegal one (the "raises" outcome).
EngineChoices(b) == legal_moves(b)

\* Faulty variant of FallbackChoices: the fallback draws from the pseudo-legal moves.
FallbackChoices_PseudoLegal(b) == {m \in AllMoves : is_pseudo_legal(b, m)}

\* list(board.legal_moves), from which random.choice draws.
FallbackChoices(b) == legal_moves(b)

\* Faulty variant of get_ai_move: without the primary engine no move is chosen.
get_ai_move_NoFallback(b, engine) ==
  IF engine = "primary" THEN EngineChoices(b) ELSE {NoneMove}

\* Faulty variant of get_ai_move: the `except` branch returns None instead
\* of falling through to the fallback.
get_ai_move_ExceptReturnsNone(b, engine) ==
  IF engine = "primary" THEN EngineChoices(b)
  ELSE IF engine = "raises" THEN {NoneMove}
  ELSE IF FallbackChoices(b) # {} THEN FallbackChoices(b)
  ELSE {NoneMove}

\* The values get_ai_move can return on board b.
get_ai_move(b, engine) ==
  IF engine = "primary" THEN EngineChoices(b)
  ELSE IF FallbackChoices(b) # {} THEN FallbackChoices(b)
  ELSE {NoneMove}

\* The strategy that produced the move.
StrategyOf(engine) == IF engine = "primary" THEN "primary" ELSE "fallback"

(***************************************************************************)
(* get_result_text, log_result   (app.py:188-213)                          *)
(***************************************************************************)
\* Faulty variant of ResultStatus: the two decisive codes are swapped.
ResultStatus_Swapped(res) ==
  IF res = "0-1" THEN "White wins"
  ELSE IF res = "1-0" THEN "Black wins"
  ELSE "Draw"

\* The outcome label of a result code (lines 190-194).
ResultStatus(res) ==
  IF res = "1-0" THEN "White wins"
  ELSE IF res = "0-1" THEN "Black wins"
  ELSE "Draw"

\* The text block get_result_text builds from res = board.result() and
\* board.fen(), field by field (the timestamp, which no decision reads, is
\* left out).
get_result_text(res, final_fen, player, difficulty) ==
  [player |-> player, difficulty |-> difficulty,
   status |-> ResultStatus(res), res |-> res, fen |-> final_fen]

\* The log after log_result(text); the write raises when io_ok is false and
\* the exception is swallowed.
log_result(l, text, io_ok) == IF io_ok THEN Append(l, text) ELSE l

(***************************************************************************)
(* POST /player_move   (app.py:91-154)                                     *)
(***************************************************************************)
\* `not move_uci`
Missing(text) == text = NoText \/ text = <<>>

\* Faulty variant of Accepts: the check forgets that the mover's king may not be
\* left attacked.
Accepts_PseudoLegal(b, m) == is_pseudo_legal(b, m)

\* Is the parsed move accepted by the check of line 108.
Accepts(b, m) == is_legal(b, m)

\* board.push(move), line 110.
ApplyHuman(b, m) == push(b, m)

\* Faulty variant of ApplyAi: the automated move is returned but not pushed.
ApplyAi_Dropped(b, m) == b

\* board.push(ai_move), line 137.
ApplyAi(b, m) == push(b, m)

\* Faulty variant of HumanEndsGame: the test after the human move is missing.
HumanEndsGame_Skipped(b) == FALSE

\* The check of line 115.
HumanEndsGame(b) == is_game_over(b)

\* Faulty variant of AiEndsGame: only checkmate ends the game after the reply.
AiEndsGame_CheckmateOnly(b) == is_checkmate(b)

\* The check of line 140.
AiEndsGame(b) == is_game_over(b)

Applied(m, by, before) == [move |-> m, by |-> by, before |-> before]
MovesOf(applied) == [i \in 1..Len(applied) |-> applied[i].move]

\* Faulty variant of Reject: every rejection is reported as an error.
Reject_Conflated(status, message) ==
  /\ resp' = Response("error", message, fen(board), NoText, NoResult, None, {}, None, FALSE)
  /\ obs' = NoObs
  /\ UNCHANGED <<board, player_name, log, game_records, played>>

\* A return that leaves everything but the response as it was
\* (lines 101, 109, 112).
Reject(status, message) ==
  /\ resp' = Response(status, message, fen(board), NoText, NoResult, None, {}, None, FALSE)
  /\ obs' = NoObs
  /\ UNCHANGED <<board, player_name, log, game_records, played>>

\* Faulty variant of Finish: log_result has no try/except, so a failed write
\* escapes player_move and the caller gets an error instead of the result.
Finish_LogErrorEscapes(b, applied, strategy) ==
  \E res \in {result(b)}, dfield \in Difficulties, pfield \in MoveNames, io_ok \in BOOLEAN :
    LET text == get_result_text(res, fen(b), Get(pfield, "Guest"), Get(dfield, "medium"))
    IN /\ board' = b
       /\ log' = log_result(log, text, io_ok)
       /\ game_records' = game_records + (Len(log') - Len(log))
       /\ played' = played \o MovesOf(applied)
       /\ resp' = IF io_ok
                  THEN Response("finished", None, fen(b), NoText, text, None, {}, None, FALSE)
                  ELSE Response("error", "io", <<>>, NoText, NoResult, None, {}, None, FALSE)
       /\ obs' = [applied |-> applied, strategy |-> strategy,
                  logged |-> Len(log') - Len(log), log_error |-> ~io_ok]
       /\ UNCHANGED player_name

\* The "finished" return of lines 115-122 and 140-147 on board b.  The
\* "player" and "difficulty" fields of the request are read here (and by the
\* engine's time budget, which changes no result).
Finish(b, applied, strategy) ==
  \E res \in {result(b)}, dfield \in Difficulties, pfield \in MoveNames, io_ok \in BOOLEAN :
    LET text == get_result_text(res, fen(b), Get(pfield, "Guest"), Get(dfield, "medium"))
    IN /\ board' = b
       /\ log' = log_result(log, text, io_ok)
       /\ game_records' = game_records + (Len(log') - Len(log))
       /\ played' = played \o MovesOf(applied)
       /\ resp' = Response("finished", None, fen(b), NoText, text, None, {}, None, FALSE)
       /\ obs' = [applied |-> applied, strategy |-> strategy,
                  logged |-> Len(log') - Len(log), log_error |-> ~io_ok]
       /\ UNCHANGED player_name

\* An "ok" return on board b with automated move text ai (lines 131-135, 150-154).
Ok(b, ai, applied, strategy) ==
  /\ board' = b
  /\ played' = played \o MovesOf(applied)
  /\ resp' = Response("ok", None, fen(b), ai, NoResult, None, {}, None, FALSE)
  /\ obs' = [applied |-> applied, strategy |-> strategy, logged |-> 0, log_error |-> FALSE]
  /\ UNCHANGED <<player_name, log, game_records>>

\* Lines 127-154: the automated reply on board b1, the human move applied.
AiReply(b1, human) ==
  \E engine \in EngineOutcomes :
    \E ai_move \in get_ai_move(b1, engine) :
      IF ai_move = NoneMove
      THEN Ok(b1, NoText, human, StrategyOf(engine))
      ELSE \E b2 \in {ApplyAi(b1, ai_move)} :
             LET both == Append(human, Applied(ai_move, "ai", b1))
             IN IF AiEndsGame(b2)
                THEN Finish(b2, both, StrategyOf(engine))
                ELSE Ok(b2, uci_of(ai_move), both, StrategyOf(engine))

SubmitHumanMove ==
  /\ Served
  /\ \E text \in MoveTexts :
       LET parsed == from_uci(text)
           human == <<Applied(parsed.move, "human", board)>>
       IN
       /\ req' = Request("player_move", text, <<>>, None)
       /\ IF Missing(text) THEN Reject("error", "Missing move")
          ELSE IF ~parsed.ok THEN Reject("error", "invalid uci")
          ELSE IF ~Accepts(board, parsed.move) THEN Reject("illegal", None)
          ELSE \E b1 \in {ApplyHuman(board, parsed.move)} :
                 IF HumanEndsGame(b1) THEN Finish(b1, human, "none")
                 ELSE AiReply(b1, human)

Next ==
  \/ GetState
  \/ StartSession
  \/ ResetSession
  \/ LegalMovesFrom
  \/ SubmitHumanMove

Spec == Init /\ [][Next]_vars

(***************************************************************************)
(* The handlers under the threaded server: a request is served by a worker *)
(* thread, and the threads share `board` with no lock (app.py:12, 50, 68,  *)
(* 93).  player_move is split where it reads or writes the shared board:   *)
(* the legality test (108), the push (110), the terminal test (115), the   *)
(* move selection (127), the push (137) and the terminal test (140).       *)
(* `serialized` says whether a request runs to completion before the next  *)
(* one starts.                                                             *)
(***************************************************************************)
\* What the threaded steps leave alone.
ConcFrame == UNCHANGED <<req, resp, obs, pre, game_records, played, serialized>>

\* Thread p is scheduled: any time, or under serialization only while no
\* other request is in progress.
CanRun(p) == serialized => \A q \in Threads \ {p} : threads[q].pc = "idle"

\* Thread p takes up a request.
Accept(p) ==
  threads[p].pc = "idle" /\ CanRun(p) /\ nreq < MaxConcRequests /\ nreq' = nreq + 1

\* Thread p is at the given place of player_move.
At(p, pc) == threads[p].pc = pc /\ CanRun(p) /\ UNCHANGED nreq

\* Thread p returns a response of the given status.
Return(p, status, stale) ==
  threads' = [threads EXCEPT ![p] = [Idle EXCEPT !.status = status, !.stale = stale]]

\* Thread p goes on to the given place.
Goto(p, pc) == threads' = [threads EXCEPT ![p].pc = pc]

\* start_game on thread p.
ConcStart(p) ==
  /\ Accept(p)
  /\ \E name \in StartNames : player_name' = StartName(name)
  /\ board' = NewBoard
  /\ Return(p, "started", FALSE)
  /\ UNCHANGED log /\ ConcFrame

\* end_game on thread p.
ConcEnd(p) ==
  /\ Accept(p)
  /\ board' = NewBoard
  /\ Return(p, "reset", FALSE)
  /\ UNCHANGED <<player_name, log>> /\ ConcFrame

\* Lines 95-107 on thread p: the request is read and the text parsed.
ConcSubmit(p) ==
  /\ Accept(p)
  /\ \E text \in MoveTexts :
       IF Missing(text) \/ ~from_uci(text).ok
       THEN Return(p, "error", FALSE)
       ELSE threads' = [threads EXCEPT ![p] = [Idle EXCEPT !.pc = "check",
                                                           !.move = from_uci(text).move]]
  /\ UNCHANGED <<board, player_name, log>> /\ ConcFrame

\* Line 108 on thread p: the legality test against the shared board.
ConcCheck(p) ==
  /\ At(p, "check")
  /\ IF ~Accepts(board, threads[p].move)
     THEN Return(p, "illegal", FALSE)
     ELSE threads' = [threads EXCEPT ![p].pc = "push", ![p].checked = board]
  /\ UNCHANGED <<board, player_name, log>> /\ ConcFrame

\* Line 110 on thread p: the push onto the shared board as it is now; a
\* raising push is caught at line 111.
ConcPushHuman(p) ==
  /\ At(p, "push")
  /\ IF push_raises(board, threads[p].move)
     THEN /\ board' = push_partial(board, threads[p].move)
          /\ Return(p, "error", TRUE)
     ELSE /\ board' = ApplyHuman(board, threads[p].move)
          /\ threads' = [threads EXCEPT ![p].pc = "over1",
                                         ![p].stale = (board # threads[p].checked)]
  /\ UNCHANGED <<player_name, log>> /\ ConcFrame

\* Lines 116-122 and 141-147 on thread p: result text from the shared board,
\* log, finished.
ConcFinish(p) ==
  \E io_ok \in BOOLEAN :
    /\ log' = log_result(log, get_result_text(result(board), fen(board), "Guest", "medium"), io_ok)
    /\ Return(p, "finished", threads[p].stale)

\* Line 115 on thread p.
ConcHumanOver(p) ==
  /\ At(p, "over1")
  /\ IF HumanEndsGame(board)
     THEN ConcFinish(p)
     ELSE Goto(p, "choose") /\ UNCHANGED log
  /\ UNCHANGED <<board, player_name>> /\ ConcFrame

\* Faulty variant of AiBoard: get_ai_move is handed the position the
\* legality test saw, not the board after the human move.
AiBoard_BeforeHuman(p) == threads[p].checked

\* The board get_ai_move reads: the global, at the time of the call
\* (lines 161, 175, 181).
AiBoard(p) == board

\* Lines 127-135 on thread p: get_ai_move.
ConcChoose(p) ==
  /\ At(p, "choose")
  /\ \E b \in {AiBoard(p)}, engine \in EngineOutcomes :
       \E ai_move \in get_ai_move(b, engine) :
         IF ai_move = NoneMove
         THEN Return(p, "ok", threads[p].stale)
         ELSE threads' = [threads EXCEPT ![p].pc = "pushai", ![p].ai_move = ai_move,
                                         ![p].chosen_on = b]
  /\ UNCHANGED <<board, player_name, log>> /\ ConcFrame

\* Line 137 on thread p: the push onto the shared board as it is now; a
\* raising push is not caught and the request fails.
ConcPushAi(p) ==
  /\ At(p, "pushai")
  /\ IF push_raises(board, threads[p].ai_move)
     THEN /\ board' = push_partial(board, threads[p].ai_move)
          /\ Return(p, "failed", TRUE)
     ELSE /\ board' = ApplyAi(board, threads[p].ai_move)
          /\ threads' = [threads EXCEPT ![p].pc = "over2",
                            ![p].stale = (threads[p].stale \/ board # threads[p].chosen_on)]
  /\ UNCHANGED <<player_name, log>> /\ ConcFrame

\* Lines 140-154 on thread p.
ConcAiOver(p) ==
  /\ At(p, "over2")
  /\ IF AiEndsGame(board)
     THEN ConcFinish(p)
     ELSE Return(p, "ok", threads[p].stale) /\ UNCHANGED log
  /\ UNCHANGED <<board, player_name>> /\ ConcFrame

InitConc ==
  /\ threads = [p \in Threads |-> Idle]
  /\ serialized \in BOOLEAN
  /\ board = NewBoard
  /\ player_name = None
  /\ log = <<>>
  /\ req = Request("none", NoText, <<>>, None)
  /\ resp = Response(None, None, <<>>, NoText, NoResult, None, {}, None, FALSE)
  /\ obs = NoObs
  /\ pre = [op |-> "none", game_over |-> FALSE]
  /\ game_records = 0
  /\ played = <<>>
  /\ nreq = 0

NextConc ==
  \E p \in Threads :
    \/ ConcStart(p)
    \/ ConcEnd(p)
    \/ ConcSubmit(p)
    \/ ConcCheck(p)
    \/ ConcPushHuman(p)
    \/ ConcHumanOver(p)
    \/ ConcChoose(p)
    \/ ConcPushAi(p)
    \/ ConcAiOver(p)

SpecConc == InitConc /\ [][NextConc]_vars


(***************************************************************************)
(* Properties.                                                             *)
(***************************************************************************)
\* The last request was a move submission.
IsSubmit(r) == r.op = "player_move"

\* The text of a submission parses to a move.
WellFormed(text) == ~Missing(text) /\ from_uci(text).ok

\* m is a member of b's legal-move set (`m in board.legal_moves`).
InLegalMoves(b, m) == m \in AllMoves /\ is_legal(b, m)

\* The move the step's submission parses to: a set of at most one move,
\* empty when the step is no submission or its text does not parse.
Submitted ==
  IF IsSubmit(req') /\ WellFormed(req'.move) THEN {from_uci(req'.move).move} ELSE {}

\* Board State, Session Identity and result log are as before the step.
SessionUnchanged == board' = board /\ player_name' = player_name /\ log' = log

\* C1: a submission whose text parses to a move outside the current
\* position's legal-move set returns status=illegal with the unchanged
\* position string, leaves board, identity and log as they were, and
\* requests no automated move.
C1_IllegalMoveRejected ==
  [][ \A m \in Submitted :
      ~InLegalMoves(board, m)
      => /\ resp'.status = "illegal"
         /\ resp'.fen = fen(board)
         /\ fen(board') = fen(board)
         /\ SessionUnchanged
         /\ obs'.applied = <<>> /\ obs'.strategy = "none" ]_vars

\* An illegal submission was rejected in the middle of a game.
C1_Witness ==
  /\ IsSubmit(req) /\ resp.status = "illegal"
  /\ WellFormed(req.move) /\ ~InLegalMoves(board, from_uci(req.move).move)
  /\ Len(board.move_stack) = 2

\* C2: every move a submission applies, the human's and the automated
\* reply's under either strategy, is a legal move of the position held just
\* before it is applied; the reply's position is the one the human move
\* produced.
C2_AppliedMovesLegal ==
  [][ IsSubmit(req') =>
      LET ap == obs'.applied
      IN \/ ap = <<>> /\ board' = board
         \/ /\ Len(ap) = 1
            /\ ap[1].by = "human" /\ ap[1].before = board
            /\ InLegalMoves(board, ap[1].move)
            /\ board' = push(board, ap[1].move)
         \/ /\ Len(ap) = 2
            /\ ap[1].by = "human" /\ ap[1].before = board
            /\ InLegalMoves(board, ap[1].move)
            /\ ap[2].by = "ai" /\ ap[2].before = push(board, ap[1].move)
            /\ InLegalMoves(push(board, ap[1].move), ap[2].move)
            /\ obs'.strategy \in {"primary", "fallback"}
            /\ board' = push(push(board, ap[1].move), ap[2].move) ]_vars

\* A human move and a reply of the primary engine were applied.
C2_Witness ==
  /\ IsSubmit(req) /\ Len(obs.applied) = 2 /\ obs.strategy = "primary"
  /\ Len(board.move_stack) = 4

\* After /start or /end the board is the initial position and the response
\* carries its position string.
C3_AfterStartOrReset ==
  req.op \in {"start", "end"} =>
    /\ board = NewBoard
    /\ resp.fen = fen(NewBoard)
    /\ resp.status = (IF req.op = "start" THEN "started" ELSE "reset")

\* Serving the same /start or /end request again changes nothing.
C3_Repeat ==
  (req'.op \in {"start", "end"} /\ req' = req)
    => board' = board /\ player_name' = player_name /\ log' = log /\ resp' = resp

\* C3: /start and /end leave the standard initial position and return its
\* position string, whatever the state before; repeating the same request
\* changes nothing further.
C3_StartResetInitial == []C3_AfterStartOrReset /\ [][C3_Repeat]_vars

\* /start was served twice in a row after a game had ended and been logged.
C3_Witness ==
  /\ req.op = "start" /\ pre.op = "start" /\ Len(log) = 1 /\ board = NewBoard


\* C4: from a terminal position, submissions, /get_state and /valid_moves
\* leave the board as it is; every submission is rejected (illegal or
\* error), no move is applied and no record is written.
C4_TerminalStays ==
  [][ (is_game_over(board) /\ req'.op \in {"player_move", "get_state", "valid_moves"})
      => /\ board' = board
         /\ log' = log
         /\ obs'.applied = <<>>
         /\ (IsSubmit(req') => resp'.status \in {"illegal", "error"}) ]_vars

\* C5: a submission appends at most one record, one exactly when it returns
\* finished (and the write did not fail), and the records appended for one
\* game never exceed one.
C5_OneRecordPerGame ==
  /\ obs.logged <= 1
  /\ (IsSubmit(req) /\ ~obs.log_error) => (obs.logged = 1 <=> resp.status = "finished")
  /\ game_records <= 1

\* The reply step on b1, the position after the accepted human move: one
\* automated move, legal in b1, is applied by the fallback.
ReplyApplied(b1) ==
  LET ap == obs'.applied
  IN /\ obs'.strategy = "fallback"
     /\ Len(ap) = 2
     /\ InLegalMoves(b1, ap[2].move)
     /\ board' = push(b1, ap[2].move)
     /\ resp'.status \in {"ok", "finished"}

\* The positions after the step's human move, when that move is legal, does
\* not end the game, and the primary engine did not produce the reply.
FallbackCase ==
  IF obs'.strategy = "primary" THEN {}
  ELSE {b1 \in {push(board, m) : m \in {x \in Submitted : InLegalMoves(board, x)}} :
          ~is_game_over(b1)}

\* C6 as stated: with the primary engine unavailable or failing, the
\* submission applies an automated move that is legal in the position after
\* the human move, and returns that move.
C6_FallbackReturnsMove ==
  [][ \A b1 \in FallbackCase :
        /\ ReplyApplied(b1)
        /\ resp'.ai = uci_of(obs'.applied[2].move) ]_vars

\* C6 amended: the automated move is applied and legal in the position after
\* the human move; it is returned when the result is ok, a finished result
\* carrying the final position only.
C6_FallbackAppliesLegalMove ==
  [][ \A b1 \in FallbackCase :
        /\ ReplyApplied(b1)
        /\ (resp'.status = "ok" => resp'.ai = uci_of(obs'.applied[2].move))
        /\ resp'.fen = fen(board') ]_vars

\* The fallback replied to a human move and the game went on.
C6_Witness ==
  /\ IsSubmit(req) /\ obs.strategy = "fallback" /\ Len(obs.applied) = 2
  /\ resp.status = "ok" /\ resp.ai = uci_of(obs.applied[2].move)

\* C7: a submission whose text is absent, empty or unparseable returns
\* status=error and changes nothing; a well-formed text that is not a legal
\* move returns status=illegal.
C7_ErrorVersusIllegal ==
  [][ IsSubmit(req') =>
        /\ ~WellFormed(req'.move)
             => resp'.status = "error" /\ SessionUnchanged /\ resp'.fen = fen(board)
        /\ \A m \in Submitted : ~InLegalMoves(board, m) => resp'.status = "illegal" ]_vars

\* An unparseable, non-empty text was answered with error in mid-game.
C7_Witness ==
  /\ IsSubmit(req) /\ resp.status = "error" /\ ~Missing(req.move)
  /\ Len(board.move_stack) = 2

\* The terminal test after the accepted human move and after the reply.
C8_Step ==
  \A b1 \in {push(board, m) : m \in {x \in Submitted : InLegalMoves(board, x)}} :
     LET ap == obs'.applied
     IN IF is_game_over(b1)
        THEN resp'.status = "finished" /\ obs'.strategy = "none" /\ Len(ap) = 1 /\ board' = b1
        ELSE /\ \/ Len(ap) = 1 /\ board' = b1
                \/ Len(ap) = 2 /\ board' = push(b1, ap[2].move)
             /\ resp'.status = (IF is_game_over(board') THEN "finished" ELSE "ok")

\* An ok result never leaves a terminal position; a call applies at most
\* two moves.
C8_State ==
  /\ resp.status = "ok" => ~is_game_over(board)
  /\ Len(obs.applied) <= 2

\* C8: after an accepted human move the position is tested: if terminal the
\* result is finished with that one move applied and no engine call;
\* otherwise at most one automated move follows and the result is finished
\* exactly when the position is then terminal.  An ok result never leaves a
\* terminal position, and a call applies at most two moves.
C8_TerminalDetection == []C8_State /\ [][C8_Step]_vars

\* The automated reply ended the game.
C8_Witness ==
  /\ IsSubmit(req) /\ resp.status = "finished" /\ Len(obs.applied) = 2
  /\ ~is_checkmate(board)

\* The outcome label of each result code.
LabelOfCode(code) ==
  CASE code = "1-0" -> "White wins"
    [] code = "0-1" -> "Black wins"
    [] OTHER -> "Draw"

\* C9: a finished result carries the rules engine's result code of the
\* board, the label of that code and the board's position string; a record
\* written is that result, and every record pairs a code with its label.
C9_OutcomeLabel ==
  /\ resp.status = "finished" =>
       /\ resp.result.res = result(board)
       /\ resp.result.res # "*"
       /\ resp.result.status = LabelOfCode(resp.result.res)
       /\ resp.result.fen = fen(board)
  /\ obs.logged = 1 => log[Len(log)] = resp.result
  /\ \A i \in 1..Len(log) : log[i].status = LabelOfCode(log[i].res)

\* A win of White was reported and logged.
C9_Witness ==
  /\ resp.status = "finished" /\ resp.result.res = "1-0" /\ obs.logged = 1
  /\ resp.result.status = "White wins"

\* The position reached by pushing the moves, in order, onto b.
RECURSIVE ReplayFrom(_, _)
ReplayFrom(b, moves) ==
  IF moves = <<>> THEN b ELSE ReplayFrom(push(b, Head(moves)), Tail(moves))

\* The board is the replay of the moves played since the last /start or /end.
C10_State == board = ReplayFrom(NewBoard, played)

\* The moves played grow by the accepted request text and the returned reply.
C10_Step ==
  IsSubmit(req') =>
    IF resp'.status \in {"ok", "finished"}
    THEN \A m \in Submitted :
           /\ played' = played \o MovesOf(obs'.applied)
           /\ obs'.applied[1].move = m
           /\ (resp'.status = "ok" /\ resp'.ai # NoText)
                => played' = played \o <<m, from_uci(resp'.ai).move>>
    ELSE played' = played

\* C10: the board is the position obtained by replaying, from the initial
\* position, the moves submitted and replied since the last /start or /end,
\* which are the accepted request texts followed by the returned replies.
C10_NoDrift == []C10_State /\ [][C10_Step]_vars

\* Two submissions were accepted and replied to.
C10_Witness ==
  /\ IsSubmit(req) /\ resp.status = "ok" /\ Len(played) = 4
  /\ board = ReplayFrom(NewBoard, played)

\* C11: after /end the Session Identity is cleared: player_name is the
\* undefined or "Guest" default, and a /get_state that follows reports that
\* default and not the name an earlier /start set.
C11_ResetClearsIdentity ==
  [][ /\ req'.op = "end" => player_name' \in {None, "Guest"}
      /\ (req.op = "end" /\ req'.op = "get_state") => resp'.player \in {None, "Guest"} ]_vars

\* The identity the specification gives /start for a "player" field.
NameOrGuest(name) == IF name = None \/ name = "" THEN "Guest" ELSE name

\* C12: /start sets the Session Identity to the given name when it is given
\* and non-empty and to "Guest" when it is absent or empty; a /get_state
\* that follows reports that value.
C12_StartSetsIdentity ==
  [][ /\ req'.op = "start" => player_name' = NameOrGuest(req'.player)
      /\ (req.op = "start" /\ req'.op = "get_state")
           => resp'.player = NameOrGuest(req.player) ]_vars

\* The squares a text names: one square, or none when the text is malformed
\* or out of range.
NamedSquares(text) == {i \in Squares : SQUARE_NAMES[i] = text}

\* C13: /valid_moves/<square> returns exactly the legal moves of the current
\* position whose origin is that square and no move of another origin,
\* returns the empty set when the square has no legal move or the text names
\* no square, always answers, and leaves board, identity and log unchanged.
C13_LegalMovesFromSquare ==
  [][ req'.op = "valid_moves" =>
        /\ \A t \in resp'.moves :
             /\ from_uci(t).ok
             /\ InLegalMoves(board, from_uci(t).move)
             /\ from_uci(t).move.from_square \in NamedSquares(req'.square)
        /\ \A sq \in NamedSquares(req'.square) : \A to \in Squares :
             InLegalMoves(board, Move(sq, to, 0)) => uci_of(Move(sq, to, 0)) \in resp'.moves
        /\ NamedSquares(req'.square) = {} => resp'.moves = {}
        /\ SessionUnchanged ]_vars

\* In mid-game the moves of one piece were listed while another piece of the
\* side to move also had legal moves.
C13_Witness ==
  /\ req.op = "valid_moves" /\ resp.moves # {}
  /\ Len(board.move_stack) = 2
  /\ \E m \in AllMoves : is_legal(board, m) /\ uci_of(m) \notin resp.moves

\* C14: a primary engine that is missing, fails to start or raises never
\* shows in the result of a submission: the status is not error, the board is
\* not left with only the human move applied, and the call ends as one with
\* a working engine can: some move the engine could have played was applied
\* and the status is finished or ok by the position reached.
C14_EngineFailureHidden ==
  [][ \A b1 \in FallbackCase :
        /\ resp'.status # "error"
        /\ board' # b1
        /\ Len(obs'.applied) = 2 /\ obs'.applied[2].by = "ai"
        /\ \E m \in {obs'.applied[2].move} :
             /\ m \in EngineChoices(b1)
             /\ board' = push(b1, m)
        /\ resp'.status = (IF is_game_over(board') THEN "finished" ELSE "ok") ]_vars

\* With the primary engine failing, the fallback's move ended the game.
C14_Witness ==
  /\ IsSubmit(req) /\ obs.strategy = "fallback" /\ Len(obs.applied) = 2
  /\ resp.status = "finished" /\ is_game_over(board)

\* C15: for a submission that ends the game, the status (finished), the
\* result text, the final position and the board are the same whether the
\* append to the log succeeds or fails with an I/O error: a failed append
\* writes nothing, never makes the result an error and never alters or rolls
\* back the board.
C15_LogFailureInvisible ==
  [][ (IsSubmit(req') /\ obs'.applied # <<>> /\ is_game_over(board')) =>
        /\ resp'.status = "finished"
        /\ resp'.fen = fen(board')
        /\ board' = ReplayFrom(board, MovesOf(obs'.applied))
        /\ resp'.result.res = result(board')
        /\ resp'.result.status = ResultStatus(resp'.result.res)
        /\ resp'.result.fen = fen(board')
        /\ resp'.result.player \in {Get(x, "Guest") : x \in MoveNames}
        /\ resp'.result.difficulty \in {Get(x, "medium") : x \in Difficulties}
        /\ IF obs'.log_error THEN log' = log ELSE log' = Append(log, resp'.result) ]_vars

\* A game ended while the append to the log failed.
C15_Witness ==
  /\ IsSubmit(req) /\ resp.status = "finished" /\ obs.log_error /\ obs.logged = 0
  /\ is_game_over(board) /\ resp.fen = fen(board)

\* C17: the player identity in a finished result text, and in the record
\* written for it, is the current Session Identity (the name the most recent
\* /start established), whatever "player" field the submission carries.
C17_RecordNamesSessionIdentity ==
  player_name # None =>
    /\ resp.status = "finished" => resp.result.player = player_name
    /\ (IsSubmit(req) /\ obs.logged = 1) => log[Len(log)].player = player_name

\* C18: with requests served one at a time, status=ok with no automated move
\* does not occur: every ok result carries an automated move, legal in the
\* position after the human move, that has been applied to the board.
C18_OkCarriesAppliedMove ==
  (IsSubmit(req) /\ resp.status = "ok") =>
    /\ resp.ai # NoText
    /\ Len(obs.applied) = 2
    /\ resp.ai = uci_of(obs.applied[2].move)
    /\ InLegalMoves(obs.applied[2].before, obs.applied[2].move)
    /\ board = push(obs.applied[2].before, obs.applied[2].move)

\* An ok result carries the automated move of a position that had exactly
\* one legal move.
C18_Witness ==
  /\ IsSubmit(req) /\ resp.status = "ok" /\ resp.ai # NoText
  /\ Len(obs.applied) = 2
  /\ Cardinality(legal_moves(obs.applied[2].before)) = 1

\* C19: with requests served one at a time, whenever the position between
\* requests is not terminal the side to move is White; a submission never
\* returns leaving a non-terminal position with Black to move.
C19_WhiteToMoveBetweenRequests ==
  ~is_game_over(board) => board.turn = WHITE

\* C20: a finished result produced right after the human's move is never
\* "Black wins", and one produced right after the automated reply is never
\* "White wins".
C20_LabelMatchesMover ==
  (IsSubmit(req) /\ resp.status = "finished") =>
    /\ Len(obs.applied) = 1 => resp.result.status # "Black wins"
    /\ Len(obs.applied) = 2 => resp.result.status # "White wins"

\* C16: without mutual exclusion, two interleaved requests can apply a move
\* to a position other than the one it was checked against or chosen from;
\* when every request runs to completion before the next starts, no move is
\* so applied and no push fails.
C16_SerializedAppliesAsChecked ==
  serialized =>
    \A p \in Threads : ~threads[p].stale /\ threads[p].status # "failed"

\* Interleaved with another request, a submission applied its move to a
\* position other than the one it was checked against, and was answered ok.
C16_Witness ==
  /\ ~serialized
  /\ \E p \in Threads : threads[p].stale /\ threads[p].status = "ok"

====
